---- MODULE Spec2Model ----
(***************************************************************************)
(* Model of the LINE webhook batch scheduler of src/src/routes_webhook.py: *)
(* the per-user message buffer, the per-user debounce timers, the request  *)
(* handler threads that enqueue messages and the timer threads that flush  *)
(* a batch, synthesize an article, publish it and record the outcome.      *)
(*                                                                         *)
(* Threads interleave at the granularity of the statements that touch the  *)
(* shared dictionaries user_message_buffer and user_batch_timers: the code *)
(* takes no lock.  Time is counted in minutes, the unit of                 *)
(* BATCH_INTERVAL_MINUTES.                                                 *)
(***************************************************************************)
EXTENDS Integers, Sequences, FiniteSets, TLC

\* Number of message events delivered in one run (each arms at most one timer).
MaxEvents == 2

\* routes_webhook.py:41, in minutes.
BATCH_INTERVAL == 2

Users == {"u1", "u2"}
MsgIds == {"m1", "m2"}
Handlers == {"h1", "h2"}

\* message.type of a message event; "sticker" stands for the types that
\* process_message_event_with_batch does not support (lines 263-265).
Kinds == {"text", "image", "video", "sticker"}

\* What a request carries in X-Line-Signature, and what its body is: empty,
\* not JSON, JSON without events, a message event without userId or message
\* id, or a message event.
Signatures == {"missing", "invalid", "valid"}
Bodies == {"empty", "unparsable", "no_events", "incomplete", "message"}
Timers == 1..MaxEvents
NoTimer == 0
NoMsg == [line_message_id |-> "", user_id |-> "", message_type |-> "",
          timestamp |-> 0, content |-> "", imgur_url |-> FALSE]

VARIABLES
    user_message_buffer,  \* user_id -> list of message_data
    buffer_keys,          \* the keys present in user_message_buffer
    user_batch_timers,    \* user_id -> timer, NoTimer when the key is absent
    timer,                \* the threading.Timer objects created so far, and
                          \* the event whose handler started each
    nTimers,              \* how many Timer objects were created
    nEvents,              \* how many message events were received
    hpc, message_data, new_timer,   \* request handler threads
    response,             \* what line_webhook last returned on each thread
    flush,                \* the process_user_batch run of each timer
    db_messages,          \* rows of Message
    db_articles,          \* rows of Article
    received,             \* history: the message events in the order of line 134,
                          \* with what became of each
    arrivals,             \* history: per user, the items in add_message_to_batch order
    sinceAdd,             \* history: minutes since the user's last add_message_to_batch
    gaps,                 \* history: what the gaps between the user's adds were
    raced                 \* history: <<item, flush>>, the item appended while that flush held its snapshot

vars == <<user_message_buffer, buffer_keys, user_batch_timers, timer, nTimers,
          nEvents, hpc, message_data, new_timer, response, flush, db_messages,
          db_articles, received, arrivals, sinceAdd, gaps, raced>>

sched == <<user_message_buffer, buffer_keys, user_batch_timers, timer, nTimers>>
hist == <<received, arrivals, sinceAdd, gaps, raced>>
db == <<db_messages, db_articles>>
handler == <<hpc, message_data, new_timer, response>>

NoResponse == [signature |-> "", body |-> "", status |-> 0]

\* A run of process_user_batch: where it is, its local `messages`, and what it
\* did: whether a title and body were generated ("unset" until then), what
\* post_article answered and how often it was called, the notifications sent,
\* whether the Article was stored, and the Message rows it marked; whether
\* the generation answered ("unset" until it is asked) and whether its text
\* repeats the image descriptions, how the search augmentation went, and
\* whether insert_imgur_urls_to_content went through ("unset" until called).
NoAugment == [extraction |-> "unset", judge |-> "unset", search |-> "unset"]
NoFlush == [pc |-> "none", messages |-> <<>>, title |-> "unset",
            article_url |-> "unset", posts |-> 0, notes |-> <<>>,
            article |-> FALSE, marked |-> {},
            basic_content |-> "unset", echo |-> FALSE, augment |-> NoAugment,
            inserted |-> "unset"]

Init ==
    /\ user_message_buffer = [u \in Users |-> <<>>]
    /\ buffer_keys = {}
    /\ user_batch_timers = [u \in Users |-> NoTimer]
    /\ timer = [t \in Timers |->
           [state |-> "unused", user |-> "", remaining |-> 0, by |-> 0]]
    /\ nTimers = 0
    /\ nEvents = 0
    /\ hpc = [h \in Handlers |-> "idle"]
    /\ message_data = [h \in Handlers |-> NoMsg]
    /\ new_timer = [h \in Handlers |-> NoTimer]
    /\ response = [h \in Handlers |-> NoResponse]
    /\ flush = [t \in Timers |-> NoFlush]
    /\ db_messages = <<>>
    /\ db_articles = {}
    /\ received = <<>>
    /\ arrivals = [u \in Users |-> <<>>]
    /\ sinceAdd = [u \in Users |-> 0]
    /\ gaps = [u \in Users |-> "none"]
    /\ raced = {}

----------------------------------------------------------------------------
(* Request handler threads: line_webhook and                               *)
(* process_message_event_with_batch                                        *)

\* What line_webhook answers: 400 at lines 79-86, 500 when json.loads raises
\* (lines 109-111), 'OK' otherwise (line 113).
Status(signature, body) ==
    IF signature = "missing" \/ body = "empty" THEN 400
    ELSE IF body = "unparsable" THEN 500
    ELSE 200

\* Lines 71-113 and 123-125 for a request that leads to no message event
\* being processed: it has no signature header, or its body is empty, is not
\* JSON, has no events, or its event lacks the user id or the message id.
line_webhook_returns(h, signature, body) ==
    /\ hpc[h] = "idle"
    /\ signature = "missing" \/ body # "message"
    /\ response' = [response EXCEPT ![h] =
           [signature |-> signature, body |-> body,
            status |-> Status(signature, body)]]
    /\ UNCHANGED <<sched, nEvents, hpc, message_data, new_timer, flush, db, hist>>

\* The requests that have brought a message event so far.
Envelopes == {received[s].envelope : s \in 1..Len(received)}

\* The last message event that thread h took up, 0 if it took up none.
LastEvent(h) ==
    LET mine == {s \in 1..Len(received) : received[s].thread = h}
    IN  IF mine = {} THEN 0 ELSE CHOOSE s \in mine : \A s2 \in mine : s2 <= s

\* Lines 117-136: the message event is decoded and message_data is stamped;
\* the event is recorded with the thread and the request it came in.
Decoded(h, signature, envelope, u, m, k) ==
    /\ nEvents < MaxEvents
    /\ nEvents' = nEvents + 1
    /\ message_data' = [message_data EXCEPT ![h] =
           [line_message_id |-> m, user_id |-> u, message_type |-> k,
            timestamp |-> nEvents + 1, content |-> "", imgur_url |-> FALSE]]
    /\ received' = Append(received,
           [user_id |-> u, message_type |-> k, signature |-> signature,
            enrichment |-> {}, thread |-> h, envelope |-> envelope,
            raised |-> FALSE])
    /\ hpc' = [hpc EXCEPT ![h] = "store"]
    /\ UNCHANGED <<sched, new_timer, response, flush, db, arrivals, sinceAdd,
                   gaps, raced>>

\* Lines 71-104 and 117-136 for a request with a signature header and a
\* message event: the header's value is not verified (lines 89-90), and the
\* first message event of the envelope is taken up.
line_webhook_event(h, signature, u, m, k) ==
    /\ hpc[h] = "idle"
    /\ signature # "missing"
    /\ Decoded(h, signature, Cardinality(Envelopes) + 1, u, m, k)

\* Lines 100-104: process_message_event_with_batch has returned and the
\* loop takes up the next message event of the same envelope.
line_webhook_next(h, u, m, k) ==
    /\ hpc[h] = "idle"
    /\ LastEvent(h) # 0
    /\ response[h].body = "message"
    /\ response[h].signature = received[LastEvent(h)].signature
    /\ Decoded(h, received[LastEvent(h)].signature,
               received[LastEvent(h)].envelope, u, m, k)

\* The same for a request whose signature is the valid one.
ReceiveEvent(h, u, m, k) == line_webhook_event(h, "valid", u, m, k)

\* db.session.add(message); db.session.commit()
MessageRow(md) ==
    [line_message_id |-> md.line_message_id, user_id |-> md.user_id,
     timestamp |-> md.timestamp, processed |-> FALSE]

\* Lines 108 and 113: process_message_event_with_batch has returned and
\* line_webhook, at the end of the envelope, answers 'OK'.
line_webhook_ok(h) ==
    /\ hpc' = [hpc EXCEPT ![h] = "idle"]
    /\ message_data' = [message_data EXCEPT ![h] = NoMsg]
    /\ new_timer' = [new_timer EXCEPT ![h] = NoTimer]
    /\ response' = [response EXCEPT ![h] =
           [signature |-> received[message_data[h].timestamp].signature,
            body |-> "message", status |-> Status("valid", "message")]]

\* The except clause of lines 270-273: the handler ends, nothing is enqueued.
HandlerRaises(h) == line_webhook_ok(h)

\* The per-item enrichment that failed for the event of handler h.
Enriched(h, failures) ==
    received' = [received EXCEPT ![message_data[h].timestamp].enrichment = failures]

\* The same for an event whose processing ended in the except clause of
\* lines 270-273.
Raised(h, failures) ==
    received' = [received EXCEPT ![message_data[h].timestamp].enrichment = failures,
                                 ![message_data[h].timestamp].raised = TRUE]

\* Lines 138-150: a text message is stored; the commit may raise.
StoreText(h, commit_ok) ==
    /\ hpc[h] = "store"
    /\ message_data[h].message_type = "text"
    /\   IF commit_ok
         THEN /\ db_messages' = Append(db_messages, MessageRow(message_data[h]))
              /\ message_data' = [message_data EXCEPT ![h].content = "text"]
              /\ hpc' = [hpc EXCEPT ![h] = "append"]
              /\ UNCHANGED <<new_timer, response, received>>
         ELSE /\ HandlerRaises(h)
              /\ Raised(h, {})
              /\ UNCHANGED db_messages
    /\ UNCHANGED <<sched, nEvents, flush, db_articles, arrivals, sinceAdd,
                   gaps, raced>>

\* Lines 177, 180 and 185: the description of an image, or the text that
\* stands for it when the analysis came back empty or raised.
ANALYSIS_RESULT == "image analysis result"
ANALYSIS_FAILED == "image posted (analysis failed)"
ANALYSIS_ERROR == "image posted (analysis error)"
Sentinels == {ANALYSIS_FAILED, ANALYSIS_ERROR}

analyzed_text(image_analysis) ==
    CASE image_analysis = "described" -> ANALYSIS_RESULT
      [] image_analysis = "empty"     -> ANALYSIS_FAILED
      [] image_analysis = "raise"     -> ANALYSIS_ERROR

\* Lines 152-233: the image is fetched from LINE and written to uploads/
\* (either may raise), described by gemini_service.analyze_image, uploaded to
\* Imgur and stored; the failures of the analysis and of the upload are
\* caught where they happen.
StoreImage(h, retrieved, image_analysis, uploaded, commit_ok) ==
    /\ hpc[h] = "store"
    /\ message_data[h].message_type = "image"
    /\   IF retrieved /\ commit_ok
         THEN /\ db_messages' = Append(db_messages, MessageRow(message_data[h]))
              /\ message_data' = [message_data EXCEPT
                     ![h].content = analyzed_text(image_analysis),
                     ![h].imgur_url = uploaded]
              /\ hpc' = [hpc EXCEPT ![h] = "append"]
              /\ Enriched(h, (IF image_analysis = "described" THEN {}
                              ELSE {"analysis"})
                                 \cup (IF uploaded THEN {} ELSE {"upload"}))
              /\ UNCHANGED <<new_timer, response>>
         ELSE /\ HandlerRaises(h)
              /\ Raised(h, IF ~retrieved THEN {"retrieval"}
                           ELSE (IF image_analysis = "described" THEN {}
                                 ELSE {"analysis"})
                                    \cup (IF uploaded THEN {} ELSE {"upload"}))
              /\ UNCHANGED db_messages
    /\ UNCHANGED <<sched, nEvents, flush, db_articles, arrivals, sinceAdd,
                   gaps, raced>>

\* Line 249: f"Video: {video_path}"
VIDEO_CONTENT == "Video: uploads/video.mp4"

\* Lines 235-261: the video is fetched from LINE and written to uploads/
\* (either may raise) and stored.
StoreVideo(h, retrieved, commit_ok) ==
    /\ hpc[h] = "store"
    /\ message_data[h].message_type = "video"
    /\   IF retrieved /\ commit_ok
         THEN /\ db_messages' = Append(db_messages, MessageRow(message_data[h]))
              /\ message_data' = [message_data EXCEPT ![h].content = VIDEO_CONTENT]
              /\ hpc' = [hpc EXCEPT ![h] = "append"]
              /\ Enriched(h, {})
              /\ UNCHANGED <<new_timer, response>>
         ELSE /\ HandlerRaises(h)
              /\ Raised(h, IF retrieved THEN {} ELSE {"retrieval"})
              /\ UNCHANGED db_messages
    /\ UNCHANGED <<sched, nEvents, flush, db_articles, arrivals, sinceAdd,
                   gaps, raced>>

\* Lines 263-265: any other message type is logged and dropped.
StoreUnsupported(h) ==
    /\ hpc[h] = "store"
    /\ message_data[h].message_type \notin {"text", "image", "video"}
    /\ line_webhook_ok(h)
    /\ UNCHANGED <<sched, nEvents, flush, db, hist>>

----------------------------------------------------------------------------
(* add_message_to_batch, lines 275-292, one step per access to the shared  *)
(* dictionaries.                                                           *)

\* The runs of process_user_batch for user u that have copied the buffer
\* (line 313) and are not finished.
InFlight(u) ==
    {t \in Timers : /\ timer[t].user = u
                    /\ flush[t].pc \in {"clear", "check_timer", "del", "synth"}}

GapAfter(g, since) ==
    LET this == IF since < BATCH_INTERVAL THEN "small" ELSE "large"
    IN  IF g \in {"none", "first"} THEN (IF g = "none" THEN "first" ELSE this)
        ELSE IF g = this THEN g ELSE "mixed"

\* Line 280: user_message_buffer[user_id].append(message_data)
add_message_to_batch_append(h) ==
    LET u == message_data[h].user_id IN
    /\ hpc[h] = "append"
    /\ user_message_buffer' =
           [user_message_buffer EXCEPT ![u] = Append(@, message_data[h])]
    /\ buffer_keys' = buffer_keys \cup {u}
    /\ arrivals' = [arrivals EXCEPT ![u] = Append(@, message_data[h])]
    /\ gaps' = [gaps EXCEPT ![u] = GapAfter(@, sinceAdd[u])]
    /\ sinceAdd' = [sinceAdd EXCEPT ![u] = 0]
    /\ raced' = raced \cup {<<message_data[h].timestamp, t>> : t \in InFlight(u)}
    /\ hpc' = [hpc EXCEPT ![h] = "check_timer"]
    /\ UNCHANGED <<user_batch_timers, timer, nTimers, nEvents, message_data,
                   new_timer, response, flush, db, received>>

\* Line 284: if user_id in user_batch_timers
add_message_to_batch_check(h) ==
    LET u == message_data[h].user_id IN
    /\ hpc[h] = "check_timer"
    /\ hpc' = [hpc EXCEPT ![h] =
           IF user_batch_timers[u] # NoTimer THEN "cancel" ELSE "start"]
    /\ UNCHANGED <<sched, nEvents, message_data, new_timer, response, flush,
                   db, hist>>

\* threading.Timer.cancel(): stops a timer that has not fired yet.
Cancelled(tm) ==
    IF tm.state = "live" THEN [tm EXCEPT !.state = "cancelled"] ELSE tm

\* Line 285: user_batch_timers[user_id].cancel(); KeyError when a flush has
\* deleted the entry since line 284.
add_message_to_batch_cancel(h) ==
    LET u == message_data[h].user_id
        t == user_batch_timers[u] IN
    /\ hpc[h] = "cancel"
    /\ IF t = NoTimer
       THEN /\ HandlerRaises(h)
            /\ Raised(h, {})
            /\ UNCHANGED timer
       ELSE /\ timer' = [timer EXCEPT ![t] = Cancelled(@)]
            /\ hpc' = [hpc EXCEPT ![h] = "start"]
            /\ UNCHANGED <<message_data, new_timer, response, received>>
    /\ UNCHANGED <<user_message_buffer, buffer_keys, user_batch_timers,
                   nTimers, nEvents, flush, db, arrivals, sinceAdd, gaps, raced>>

\* Lines 288-289: timer = threading.Timer(BATCH_INTERVAL, ...); timer.start()
add_message_to_batch_start(h) ==
    LET u == message_data[h].user_id
        t == nTimers + 1 IN
    /\ hpc[h] = "start"
    /\ nTimers < MaxEvents
    /\ nTimers' = t
    /\ timer' = [timer EXCEPT ![t] =
           [state |-> "live", user |-> u, remaining |-> BATCH_INTERVAL,
            by |-> message_data[h].timestamp]]
    /\ new_timer' = [new_timer EXCEPT ![h] = t]
    /\ hpc' = [hpc EXCEPT ![h] = "assign"]
    /\ UNCHANGED <<user_message_buffer, buffer_keys, user_batch_timers,
                   nEvents, message_data, response, flush, db, hist>>

\* Line 290: user_batch_timers[user_id] = timer
add_message_to_batch_assign(h) ==
    LET u == message_data[h].user_id IN
    /\ hpc[h] = "assign"
    /\ user_batch_timers' = [user_batch_timers EXCEPT ![u] = new_timer[h]]
    /\ line_webhook_ok(h)
    /\ UNCHANGED <<user_message_buffer, buffer_keys, timer, nTimers, nEvents,
                   flush, db, hist>>

----------------------------------------------------------------------------
(* threading.Timer: a started timer waits BATCH_INTERVAL and then, unless  *)
(* it was cancelled, calls process_user_batch on its own thread.           *)

Live(t) == timer[t].state = "live"

\* One minute passes.  A timer whose interval is over fires before more time
\* passes.
Tick ==
    /\ \A t \in Timers : Live(t) => timer[t].remaining > 0
    /\ timer' = [t \in Timers |->
           IF Live(t) THEN [timer[t] EXCEPT !.remaining = @ - 1] ELSE timer[t]]
    /\ sinceAdd' = [u \in Users |->
           IF arrivals[u] # <<>> /\ sinceAdd[u] < BATCH_INTERVAL
           THEN sinceAdd[u] + 1 ELSE sinceAdd[u]]
    /\ UNCHANGED <<user_message_buffer, buffer_keys, user_batch_timers,
                   nTimers, nEvents, handler, flush, db, received, arrivals,
                   gaps, raced>>

\* Timer.run: the interval is over and the timer was not cancelled.
TimerFires(t) ==
    /\ Live(t)
    /\ timer[t].remaining = 0
    /\ timer' = [timer EXCEPT ![t].state = "fired"]
    /\ flush' = [flush EXCEPT ![t].pc = "check"]
    /\ UNCHANGED <<user_message_buffer, buffer_keys, user_batch_timers,
                   nTimers, nEvents, handler, db, hist>>

\* The same with the passing of time left open: the interval of a live timer
\* is over at some moment, the timers started before it having fired first.
TimerExpires(t) ==
    /\ Live(t)
    /\ \A t2 \in Timers : t2 < t => ~Live(t2)
    /\ timer' = [timer EXCEPT ![t].state = "fired", ![t].remaining = 0]
    /\ flush' = [flush EXCEPT ![t].pc = "check"]
    /\ UNCHANGED <<user_message_buffer, buffer_keys, user_batch_timers,
                   nTimers, nEvents, handler, db, hist>>

----------------------------------------------------------------------------
(* process_user_batch, lines 294-404, run by timer t for the user it was   *)
(* started for.                                                            *)

Goto(t, label) == flush' = [flush EXCEPT ![t].pc = label]

SUCCESS == "success"
FAILURE == "failure"

\* line_service.send_message(user_id, text): the notification is recorded.
Notified(f, kind) == [f EXCEPT !.notes = Append(@, kind)]

\* ExceptHandler with the exception swallowed: the run ends and the user is
\* told nothing.
ExceptHandlerSilent(f) == [f EXCEPT !.pc = "done"]

\* Lines 393-404: any exception ends the run with an error notification.
ExceptHandler(f) == [Notified(f, FAILURE) EXCEPT !.pc = "done"]

\* process_user_batch_check without the return of line 311: the run goes on
\* to line 313 whatever the buffer holds.
process_user_batch_check_unguarded(t) ==
    /\ flush[t].pc = "check"
    /\ Goto(t, "copy")
    /\ UNCHANGED <<sched, nEvents, handler, db, hist>>

\* Lines 309-311: nothing buffered, the run ends.
process_user_batch_check(t) ==
    LET u == timer[t].user IN
    /\ flush[t].pc = "check"
    /\ IF u \notin buffer_keys \/ user_message_buffer[u] = <<>>
       THEN Goto(t, "done")
       ELSE Goto(t, "copy")
    /\ UNCHANGED <<sched, nEvents, handler, db, hist>>

\* Line 313: messages = user_message_buffer[user_id].copy()
process_user_batch_copy(t) ==
    LET u == timer[t].user IN
    /\ flush[t].pc = "copy"
    /\ flush' = [flush EXCEPT ![t].messages = user_message_buffer[u],
                              ![t].pc = "clear"]
    /\ UNCHANGED <<sched, nEvents, handler, db, hist>>

\* process_user_batch_clear without the assignment of line 316: the items stay
\* in the buffer after the snapshot.
process_user_batch_keep(t) ==
    /\ flush[t].pc = "clear"
    /\ Goto(t, "check_timer")
    /\ UNCHANGED <<sched, nEvents, handler, db, hist>>

\* Line 316: user_message_buffer[user_id] = []
process_user_batch_clear(t) ==
    LET u == timer[t].user IN
    /\ flush[t].pc = "clear"
    /\ user_message_buffer' = [user_message_buffer EXCEPT ![u] = <<>>]
    /\ buffer_keys' = buffer_keys \cup {u}
    /\ Goto(t, "check_timer")
    /\ UNCHANGED <<user_batch_timers, timer, nTimers, nEvents, handler, db, hist>>

\* Line 317: if user_id in user_batch_timers
process_user_batch_check_timer(t) ==
    LET u == timer[t].user IN
    /\ flush[t].pc = "check_timer"
    /\ Goto(t, IF user_batch_timers[u] # NoTimer THEN "del" ELSE "synth")
    /\ UNCHANGED <<sched, nEvents, handler, db, hist>>

\* process_user_batch_del with the timer entries of all users deleted, as
\* user_batch_timers.clear() would.
process_user_batch_del_all(t) ==
    /\ flush[t].pc = "del"
    /\ user_batch_timers' = [u \in Users |-> NoTimer]
    /\ Goto(t, "synth")
    /\ UNCHANGED <<user_message_buffer, buffer_keys, timer, nTimers, nEvents,
                   handler, db, hist>>

\* Line 318: del user_batch_timers[user_id]; KeyError when another flush has
\* deleted the entry since line 317.
process_user_batch_del(t) ==
    LET u == timer[t].user IN
    /\ flush[t].pc = "del"
    /\ IF user_batch_timers[u] = NoTimer
       THEN /\ flush' = [flush EXCEPT ![t] = ExceptHandler(@)]
            /\ UNCHANGED user_batch_timers
       ELSE /\ user_batch_timers' = [user_batch_timers EXCEPT ![u] = NoTimer]
            /\ Goto(t, "synth")
    /\ UNCHANGED <<user_message_buffer, buffer_keys, timer, nTimers, nEvents,
                   handler, db, hist>>

\* Lines 323-325: the messages of one type, in the order of the snapshot.
OfType(messages, type) ==
    LET IsType(msg) == msg.message_type = type
    IN  SelectSeq(messages, IsType)

\* msg.get('content') at lines 417 and 421.
WithContent(messages) ==
    LET HasContent(msg) == msg.content # ""
    IN  SelectSeq(messages, HasContent)

\* One line of all_texts: the label, the content and the item it comes from.
Labelled(label, messages) ==
    [i \in 1..Len(messages) |->
        [label |-> label, content |-> messages[i].content,
         timestamp |-> messages[i].timestamp]]

\* Lines 411-424: the lines of the text messages, then those of the images,
\* then those of the videos.
combined_all_text(text_messages, image_messages, video_messages) ==
    Labelled("message", text_messages)
        \o Labelled("image", WithContent(image_messages))
        \o Labelled("video", WithContent(video_messages))

\* Lines 637-696: the queries Gemini extracts, or the frequent words of
\* extract_fallback_queries when it gives none or raises; [] when the
\* extraction raises outside the inner try blocks.
extract_search_queries_from_content(extraction) ==
    IF extraction \in {"queries", "fallback"} THEN <<"query">> ELSE <<>>

\* Lines 449-466: the judgement is asked for when there are queries; an
\* answer that raises leaves should_search False.
should_search(search_queries, judge) ==
    search_queries # <<>> /\ judge = "yes"

\* The methods of SearchService (src/services/search_service.py) and the ones
\* lines 474-485 look for.
SearchServiceMethods ==
    {"search_web", "search_related_info", "enhance_content_with_search"}
EnhanceMethods ==
    {"enhance_content_with_search_and_links", "search_and_enhance_content",
     "enhance_content"}

\* The pieces of an article body: generated prose, an image description
\* quoted by the generation, the section of source links, an <img> tag.
\* A description is the text of the item's content: the analyses of two
\* images are different texts, the texts of lines 180 and 185 are the same
\* for every image.
Prose == [kind |-> "prose", content |-> "", of |-> 0]
Links == [kind |-> "links", content |-> "", of |-> 0]
Description(msg) ==
    [kind |-> "description", content |-> msg.content,
     of |-> IF msg.content = ANALYSIS_RESULT THEN msg.timestamp ELSE 0]
ImgTag(msg) == [kind |-> "img", content |-> "", of |-> msg.timestamp]

\* What gemini_service.generate_content answers to blog_prompt (line 468):
\* prose, which may repeat the image descriptions it was given.
RECURSIVE Quoted(_)
Quoted(image_messages) ==
    IF image_messages = <<>> THEN <<>>
    ELSE <<Description(Head(image_messages)), Prose>> \o Quoted(Tail(image_messages))

generate_content(image_messages, echo) ==
    <<Prose>> \o (IF echo THEN Quoted(image_messages) ELSE <<>>)

\* Lines 469-497: the generated text, with the links the search added when a
\* search was judged necessary, SearchService has one of the methods and the
\* call did not raise.
enhanced_content(basic_content, search_queries, should, search) ==
    IF should /\ EnhanceMethods \cap SearchServiceMethods # {} /\ search = "links"
    THEN basic_content \o <<Links>>
    ELSE basic_content

\* Lines 540-562: the tags of the images that have an Imgur URL, in the
\* order of image_messages.
RECURSIVE image_html_tags(_)
image_html_tags(image_messages) ==
    IF image_messages = <<>> THEN <<>>
    ELSE (IF Head(image_messages).imgur_url THEN <<ImgTag(Head(image_messages))>>
          ELSE <<>>) \o image_html_tags(Tail(image_messages))

\* The query extraction, the search judgement or the search did not go
\* through.
AugmentationFailed(augment) ==
    \/ augment.extraction \in {"fallback", "raise"}
    \/ augment.judge = "raise"
    \/ augment.search = "raise"

\* returns_content without the except clauses of lines 465, 491 and 694: a
\* failure of the augmentation reaches the except clause of line 567.
returns_content_unguarded(generated, augment) ==
    generated /\ ~AugmentationFailed(augment)

\* Whether create_integrated_content_fixed gets to its return at line 565:
\* the failures of the augmentation are caught where they happen (lines
\* 465, 491, 694), an empty generation is not (lines 507, 567).
returns_content(generated, augment) == generated

\* Lines 445-493: which of the extraction, the judgement and the search were
\* consulted, and what they gave.
Augmentation(answers) ==
    LET search_queries == extract_search_queries_from_content(answers.extraction)
        should == should_search(search_queries, answers.judge)
    IN  [extraction |-> answers.extraction,
         judge |-> IF search_queries # <<>> THEN answers.judge ELSE "unset",
         search |-> IF should /\ EnhanceMethods \cap SearchServiceMethods # {}
                    THEN answers.search ELSE "unset"]

\* Lines 406-571 for the snapshot `messages`: the article is generated,
\* augmented and given the image tags.  The result is empty when the
\* generation gives nothing (lines 567-571 after the TypeError of line 507,
\* or an empty title at line 330).
create_integrated_content_fixed(messages, generated, echo, augment) ==
    LET image_messages == OfType(messages, "image")
        search_queries ==
            IF augment.judge = "unset" THEN <<>> ELSE <<"query">>
        basic_content == generate_content(image_messages, echo)
    IN  IF returns_content(generated, augment)
        THEN enhanced_content(basic_content, search_queries,
                              should_search(search_queries, augment.judge),
                              augment.search)
                 \o image_html_tags(image_messages)
        ELSE <<>>

\* Lines 323-328 and 411-424 for a run that has called
\* create_integrated_content_fixed: the text given to the generation.
Prompt(f) ==
    IF f.basic_content = "unset" THEN <<>>
    ELSE combined_all_text(OfType(f.messages, "text"),
                           OfType(f.messages, "image"),
                           OfType(f.messages, "video"))

\* The first place in the body where the description is found, 0 if none.
FirstOccurrence(content, desc) ==
    LET hits == {i \in 1..Len(content) : content[i] = desc}
    IN  IF hits = {} THEN 0 ELSE CHOOSE i \in hits : \A j \in hits : i <= j

\* Lines 601-609: the tag of each image that has an Imgur URL is put right
\* after the first place where the body repeats the image's description.
\* (Lines 611-616 serve the images without a description; lines 176-185
\* leave none.)
RECURSIVE insert_imgur_urls_to_content(_, _)
insert_imgur_urls_to_content(content, image_messages) ==
    IF image_messages = <<>> THEN content
    ELSE LET msg == Head(image_messages)
             i == FirstOccurrence(content, Description(msg))
         IN  insert_imgur_urls_to_content(
                 IF msg.imgur_url /\ i > 0
                 THEN SubSeq(content, 1, i) \o <<ImgTag(msg)>>
                          \o SubSeq(content, i + 1, Len(content))
                 ELSE content,
                 Tail(image_messages))

\* Lines 576-625: whether insert_imgur_urls_to_content goes through.  It
\* returns at line 578 when there is no image; with an image that has a URL
\* and a description, re.subn (line 607) raises when the description, used
\* as the replacement, holds a bad escape.
Insertion(messages, insert) ==
    IF \E i \in 1..Len(messages) :
           messages[i].message_type = "image" /\ messages[i].imgur_url
    THEN insert ELSE "ok"

\* Lines 328-338 for a run that has called post_article: the body it gave.
\* When the insertion raises, insert_imgur_urls_to_content returns the
\* content it was given (lines 621-625).
final_content(f) ==
    LET integrated_content ==
            create_integrated_content_fixed(f.messages, f.basic_content = "text",
                                            f.echo, f.augment)
    IN  IF f.posts = 0 THEN <<>>
        ELSE IF f.inserted = "raise" THEN integrated_content
        ELSE insert_imgur_urls_to_content(integrated_content,
                                          OfType(f.messages, "image"))

\* Synthesized without the test of line 330: the run goes on to post_article
\* whatever was generated.
SynthesizedUnchecked(f, generated) ==
    [f EXCEPT !.title = IF generated THEN "ok" ELSE "empty", !.pc = "post"]

\* Lines 322-332 and 387-391: create_integrated_content_fixed returns a title
\* and a body, or nothing (the generation was empty or raised, lines 567-571).
Synthesized(f, generated) ==
    IF generated
    THEN [f EXCEPT !.title = "ok", !.pc = "post"]
    ELSE [Notified(f, FAILURE) EXCEPT !.title = "empty", !.pc = "done"]

\* Posted without the test of line 340: whatever post_article returns is
\* taken for a URL.
PostedUnchecked(f, result) ==
    LET g == [f EXCEPT !.posts = @ + 1, !.article_url = result] IN
    IF result = "raise" THEN ExceptHandler(g)
    ELSE [Notified(g, SUCCESS) EXCEPT !.pc = "article"]

\* Lines 335-346 and 382-386: hatena_service.post_article returns a URL, or
\* None, or raises; the user is told which.
Posted(f, result) ==
    LET g == [f EXCEPT !.posts = @ + 1, !.article_url = result] IN
    CASE result = "url"   -> [Notified(g, SUCCESS) EXCEPT !.pc = "article"]
      [] result = "none"  -> [Notified(g, FAILURE) EXCEPT !.pc = "done"]
      [] result = "raise" -> ExceptHandler(g)

\* Lines 348-372: the Article is added and committed; the commit may raise.
ArticleSaved(f, commit_ok) ==
    IF commit_ok THEN [f EXCEPT !.article = TRUE, !.pc = "mark"]
    ELSE ExceptHandler(f)

\* source_message_ids with the ids listed from the last item to the first.
source_message_ids_reversed(messages) ==
    [i \in 1..Len(messages) |-> messages[Len(messages) + 1 - i].line_message_id]

\* Line 358: source_message_ids = [msg['line_message_id'] for msg in messages]
source_message_ids(messages) ==
    [i \in 1..Len(messages) |-> messages[i].line_message_id]

\* Message.query.filter_by(line_message_id=id).first(): the first row stored
\* with that id, 0 when there is none.
FirstRow(rows, id) ==
    LET hits == {i \in 1..Len(rows) : rows[i].line_message_id = id}
    IN  IF hits = {} THEN 0 ELSE CHOOSE i \in hits : \A j \in hits : i <= j

\* RowsToMark without the filter on line_message_id: every stored row.
RowsToMarkAll(rows, messages) == {i \in 1..Len(rows) : Len(messages) > 0}

\* Lines 375-378: the rows the loop sets processed on.
RowsToMark(rows, messages) ==
    {FirstRow(rows, messages[i].line_message_id) : i \in 1..Len(messages)} \ {0}

\* Lines 374-381: the rows are marked and committed; the commit may raise.
MessagesMarked(f, rows, commit_ok) ==
    IF commit_ok
    THEN [f EXCEPT !.marked = RowsToMark(rows, f.messages), !.pc = "done"]
    ELSE ExceptHandler(f)

\* Lines 320-404 for one snapshot: synthesis, publication, notification and
\* the two database commits, in the order of the code; each stage runs only
\* if the stage before it went through.
\* `answers` says how the collaborators answer: the generation, post_article
\* and the two commits; whether the generated text repeats the image
\* descriptions, what the query extraction, the search judgement and the
\* search give, and whether the insertion of the image tags raises.
Processed(f, rows, answers) ==
    LET s0 == [f EXCEPT !.basic_content = IF answers.generated THEN "text" ELSE "none",
                        !.echo = answers.echo,
                        !.augment = Augmentation(answers)]
        s1 == Synthesized(s0, returns_content(answers.generated, s0.augment))
        s2 == IF s1.pc = "post"
              THEN Posted([s1 EXCEPT !.inserted = Insertion(s1.messages, answers.insert)],
                          answers.post)
              ELSE s1
        s3 == IF s2.pc = "article" THEN ArticleSaved(s2, answers.article_ok) ELSE s2
    IN  IF s3.pc = "mark" THEN MessagesMarked(s3, rows, answers.mark_ok) ELSE s3

process_user_batch_process(t, answers) ==
    LET f == Processed(flush[t], db_messages, answers) IN
    /\ flush[t].pc = "synth"
    /\ flush' = [flush EXCEPT ![t] = f]
    /\ db_articles' =
           IF f.article
           THEN db_articles \cup
                    {[source_messages |-> source_message_ids(f.messages), flush |-> t]}
           ELSE db_articles
    /\ db_messages' = [i \in 1..Len(db_messages) |->
           IF i \in f.marked THEN [db_messages[i] EXCEPT !.processed = TRUE]
           ELSE db_messages[i]]
    /\ UNCHANGED <<sched, nEvents, handler, hist>>

----------------------------------------------------------------------------

\* How the collaborators of one flush can answer; a stage that is not reached
\* is listed with its good answer.
Answers(generated, post, article_ok, mark_ok) ==
    [generated |-> generated, post |-> post,
     article_ok |-> article_ok, mark_ok |-> mark_ok,
     echo |-> FALSE, extraction |-> "queries", judge |-> "no", search |-> "links",
     insert |-> "ok"]
AllGood == Answers(TRUE, "url", TRUE, TRUE)
AnyAnswers ==
    {AllGood,
     Answers(FALSE, "url", TRUE, TRUE),
     Answers(TRUE, "none", TRUE, TRUE),
     Answers(TRUE, "raise", TRUE, TRUE),
     Answers(TRUE, "url", FALSE, TRUE),
     Answers(TRUE, "url", TRUE, FALSE)}

\* The steps of the request handlers HS, over users US and message ids IDS,
\* with the handler's commit succeeding or not as OKS allows.
HandlerStep(HS, US, IDS, OKS) ==
    \/ \E h \in HS, u \in US, m \in IDS : ReceiveEvent(h, u, m, "text")
    \/ \E h \in HS, ok \in OKS : StoreText(h, ok)
    \/ \E h \in HS : add_message_to_batch_append(h)
    \/ \E h \in HS : add_message_to_batch_check(h)
    \/ \E h \in HS : add_message_to_batch_cancel(h)
    \/ \E h \in HS : add_message_to_batch_start(h)
    \/ \E h \in HS : add_message_to_batch_assign(h)

\* The steps of the request handlers HS for images, videos and the types
\* that are not supported; the retrieval, the analysis, the upload and the
\* commit succeed or fail.
MediaStep(HS, US, IDS) ==
    \/ \E h \in HS, u \in US, m \in IDS, k \in Kinds \ {"text"} :
           ReceiveEvent(h, u, m, k)
    \/ \E h \in HS, retrieved \in BOOLEAN,
          image_analysis \in {"described", "empty", "raise"},
          uploaded \in BOOLEAN :
           StoreImage(h, retrieved, image_analysis, uploaded, TRUE)
    \/ \E h \in HS, retrieved \in BOOLEAN : StoreVideo(h, retrieved, TRUE)
    \/ \E h \in HS : StoreUnsupported(h)

\* The steps of the request handlers HS for images that are fetched,
\* described, uploaded and stored without a failure.
ImageStep(HS, US, IDS) ==
    \/ \E h \in HS, u \in US, m \in IDS : ReceiveEvent(h, u, m, "image")
    \/ \E h \in HS : StoreImage(h, TRUE, "described", TRUE, TRUE)
    \/ \E h \in HS : add_message_to_batch_append(h)
    \/ \E h \in HS : add_message_to_batch_check(h)
    \/ \E h \in HS : add_message_to_batch_cancel(h)
    \/ \E h \in HS : add_message_to_batch_start(h)
    \/ \E h \in HS : add_message_to_batch_assign(h)

\* The requests that are answered without a message event being processed,
\* as <<signature, body>>.
Unprocessed ==
    {<<"missing", "message">>, <<"valid", "empty">>, <<"valid", "unparsable">>,
     <<"valid", "no_events">>, <<"valid", "incomplete">>}

\* The steps of line_webhook on the threads HS for the requests of
\* Unprocessed, for text messages that come with a wrong signature, and for
\* the text messages that follow the first in an envelope.
EnvelopeStep(HS, US, IDS) ==
    \/ \E h \in HS, r \in Unprocessed : line_webhook_returns(h, r[1], r[2])
    \/ \E h \in HS, u \in US, m \in IDS :
           line_webhook_event(h, "invalid", u, m, "text")
    \/ \E h \in HS, u \in US, m \in IDS : line_webhook_next(h, u, m, "text")

\* The steps of the run of process_user_batch started by timer t, with the
\* collaborators answering as ANS allows.
process_user_batch(t, ANS) ==
    \/ process_user_batch_check(t)
    \/ process_user_batch_copy(t)
    \/ process_user_batch_clear(t)
    \/ process_user_batch_check_timer(t)
    \/ process_user_batch_del(t)
    \/ \E a \in ANS : process_user_batch_process(t, a)

\* Lines 309-318 of process_user_batch, and the rest of it with the
\* collaborators answering as ANS allows.
FlushStep(ANS) ==
    \/ \E t \in Timers : process_user_batch_check(t)
    \/ \E t \in Timers : process_user_batch_copy(t)
    \/ \E t \in Timers : process_user_batch_clear(t)
    \/ \E t \in Timers : process_user_batch_check_timer(t)
    \/ \E t \in Timers : process_user_batch_del(t)
    \/ \E t \in Timers, a \in ANS : process_user_batch_process(t, a)

\* Timed runs: concurrent request handlers of one user, timers that fire when
\* their interval is over; every collaborator call succeeds.
Next ==
    \/ HandlerStep(Handlers, {"u1"}, MsgIds, {TRUE})
    \/ Tick
    \/ \E t \in Timers : TimerFires(t)
    \/ FlushStep({AllGood})

Spec == Init /\ [][Next]_vars

\* Untimed runs: a request handler whose timers expire at any moment, in the
\* order they were started; the collaborators may fail.
NextFaults ==
    \/ HandlerStep({"h1"}, {"u1"}, MsgIds, BOOLEAN)
    \/ \E t \in Timers : TimerExpires(t)
    \/ FlushStep(AnyAnswers)

SpecFaults == Init /\ [][NextFaults]_vars

\* Timed runs of concurrent request handlers of all users, with collaborators
\* that may fail.
NextAll ==
    \/ HandlerStep(Handlers, Users, MsgIds, BOOLEAN)
    \/ Tick
    \/ \E t \in Timers : TimerFires(t)
    \/ FlushStep(AnyAnswers)

SpecAll == Init /\ [][NextAll]_vars

\* The generated text repeats the image descriptions of its prompt.
Echoing == [AllGood EXCEPT !.echo = TRUE]

\* Untimed runs of one request thread that receives texts, images, videos
\* and other types, with the per-item enrichment failing or not; the flush
\* collaborators succeed.
NextMedia ==
    \/ HandlerStep({"h1"}, {"u1"}, MsgIds, {TRUE})
    \/ MediaStep({"h1"}, {"u1"}, MsgIds)
    \/ \E t \in Timers : TimerExpires(t)
    \/ FlushStep({AllGood, Echoing})

SpecMedia == Init /\ [][NextMedia]_vars

\* Untimed runs of one request thread that receives unsigned, wrongly signed,
\* malformed and well-formed requests; the collaborators succeed.
NextEnvelope ==
    \/ HandlerStep({"h1"}, {"u1"}, MsgIds, {TRUE})
    \/ EnvelopeStep({"h1"}, {"u1"}, MsgIds)
    \/ \E t \in Timers : TimerExpires(t)
    \/ FlushStep({AllGood})

SpecEnvelope == Init /\ [][NextEnvelope]_vars

\* How the generation and the search augmentation of one flush can answer.
AugmentAnswers ==
    {[AllGood EXCEPT !.extraction = e, !.judge = j] :
        e \in {"queries", "fallback", "raise"}, j \in {"yes", "no", "raise"}}
    \cup {[AllGood EXCEPT !.judge = "yes", !.search = "raise"],
          Answers(FALSE, "url", TRUE, TRUE),
          [Answers(FALSE, "url", TRUE, TRUE) EXCEPT !.extraction = "raise"]}

\* Untimed runs of one request thread receiving texts that all carry the
\* same message id, with the search augmentation of the flush failing or not.
NextAugment ==
    \/ HandlerStep({"h1"}, {"u1"}, {"m1"}, {TRUE})
    \/ \E t \in Timers : TimerExpires(t)
    \/ FlushStep(AugmentAnswers)

SpecAugment == Init /\ [][NextAugment]_vars

\* Untimed runs of two users whose requests are each handled on a thread of
\* their own; every collaborator call succeeds.
NextKeys ==
    \/ HandlerStep({"h1"}, {"u1"}, {"m1"}, {TRUE})
    \/ HandlerStep({"h2"}, {"u2"}, {"m1"}, {TRUE})
    \/ \E t \in Timers : TimerExpires(t)
    \/ FlushStep({AllGood})

SpecKeys == Init /\ [][NextKeys]_vars

\* How the stages of one flush can fail: the generation gives nothing, the
\* insertion of the image tags raises, post_article raises, the commit of
\* the Article raises.
StageAnswers ==
    {AllGood,
     Answers(FALSE, "url", TRUE, TRUE),
     [AllGood EXCEPT !.insert = "raise"],
     Answers(TRUE, "raise", TRUE, TRUE),
     Answers(TRUE, "url", FALSE, TRUE)}

\* Untimed runs of one request thread receiving images that all carry the
\* same message id, with the stages of the flush failing or not.  A timer
\* thread that can take a step is scheduled in the end: every run of
\* process_user_batch goes on until it returns.
NextStages ==
    \/ ImageStep({"h1"}, {"u1"}, {"m1"})
    \/ \E t \in Timers : TimerExpires(t)
    \/ FlushStep(StageAnswers)

SpecStages ==
    /\ Init /\ [][NextStages]_vars
    /\ \A t \in Timers : WF_vars(process_user_batch(t, StageAnswers))

----------------------------------------------------------------------------
(* What the properties speak of.                                           *)

Stamps(messages) == {messages[i].timestamp : i \in 1..Len(messages)}
Ids(messages) == {messages[i].line_message_id : i \in 1..Len(messages)}

\* The runs of process_user_batch for user u that took a non-empty snapshot.
Snapshots(u) ==
    {t \in Timers : /\ timer[t].user = u
                    /\ flush[t].pc \in {"clear", "check_timer", "del", "synth", "done"}
                    /\ flush[t].messages # <<>>}

\* Nothing is under way in the scheduler for user u: no add_message_to_batch
\* is between its append and its end, no timer is waiting, and no
\* process_user_batch is inside lines 309-318.
Settled(u) ==
    /\ \A h \in Handlers :
           message_data[h].user_id = u =>
               hpc[h] \notin {"check_timer", "cancel", "start", "assign"}
    /\ \A t \in Timers :
           timer[t].user = u =>
               /\ ~Live(t)
               /\ flush[t].pc \in {"none", "synth", "done"}

LiveTimers(u) == {t \in Timers : Live(t) /\ timer[t].user = u}

----------------------------------------------------------------------------
(* Properties                                                              *)

\* C1: an item appended while a process_user_batch run of the same user holds
\* its snapshot is not in that snapshot, and once the scheduler has settled it
\* is in the snapshot of a later run: it is not lost.
NoLossUnderRace ==
    \A p \in raced :
        /\ p[1] \notin Stamps(flush[p[2]].messages)
        /\ Settled(timer[p[2]].user) =>
               \E t \in Snapshots(timer[p[2]].user) :
                   t # p[2] /\ p[1] \in Stamps(flush[t].messages)

\* C2: every item appended to a user's buffer ends up in exactly one flush
\* snapshot: once the scheduler has settled it is in one, and it is never in
\* the snapshots of two runs.
ExactlyOneSnapshot ==
    \A u \in Users :
        /\ \A t1, t2 \in Snapshots(u) :
               t1 # t2 => Stamps(flush[t1].messages) \cap Stamps(flush[t2].messages) = {}
        /\ Settled(u) =>
               \A s \in Stamps(arrivals[u]) :
                   \E t \in Snapshots(u) : s \in Stamps(flush[t].messages)

\* C3: when all gaps between a user's add_message_to_batch calls were shorter
\* than BATCH_INTERVAL, then once the scheduler has settled exactly one run
\* took a non-empty snapshot, and it holds all the items in arrival order.
DebounceCollapse ==
    \A u \in Users :
        (Settled(u) /\ gaps[u] \in {"first", "small"}) =>
            /\ Cardinality(Snapshots(u)) = 1
            /\ \A t \in Snapshots(u) : flush[t].messages = arrivals[u]

\* C4: when a user's two add_message_to_batch calls were BATCH_INTERVAL or
\* more apart, then once the scheduler has settled one run has taken the
\* first item alone and another run the second item alone.
WindowRestart ==
    \A u \in Users :
        (Settled(u) /\ gaps[u] = "large" /\ Len(arrivals[u]) = 2) =>
            /\ Cardinality(Snapshots(u)) = 2
            /\ \E t1, t2 \in Snapshots(u) :
                   /\ flush[t1].messages = <<arrivals[u][1]>>
                   /\ flush[t2].messages = <<arrivals[u][2]>>

\* C5: a user never has two timers that are started, not cancelled and not
\* yet fired.
AtMostOneLiveTimer ==
    \A u \in Users : Cardinality(LiveTimers(u)) <= 1

\* C6: of the events that carry the same message id at most one reaches
\* add_message_to_batch, so no two items of a user's batch share an id.
IdempotentIngestion ==
    \A u \in Users : \A i, j \in 1..Len(arrivals[u]) :
        i # j => arrivals[u][i].line_message_id # arrivals[u][j].line_message_id

\* The Message rows stored for the items of a snapshot.
RowsOf(messages) ==
    {i \in 1..Len(db_messages) : db_messages[i].timestamp \in Stamps(messages)}

\* Run t has neither stored an Article nor set processed on a row, and a row
\* of its snapshot that is processed was marked by another run.
NothingRecorded(t) ==
    /\ ~flush[t].article
    /\ \A a \in db_articles : a.flush # t
    /\ flush[t].marked = {}
    /\ \A i \in RowsOf(flush[t].messages) :
           db_messages[i].processed =>
               \E t2 \in Timers : t2 # t /\ i \in flush[t2].marked

\* C7: when post_article returns no URL or raises, the run stores no Article,
\* leaves the Messages of its batch unprocessed and sends the user a failure
\* notification.
PublishFailureLeavesUnprocessed ==
    \A t \in Timers :
        (flush[t].pc = "done" /\ flush[t].article_url \in {"none", "raise"}) =>
            /\ NothingRecorded(t)
            /\ \E i \in 1..Len(flush[t].notes) : flush[t].notes[i] = FAILURE

\* C7, the case: one run whose post_article returned None and one whose
\* post_article raised have both finished.
PublishFailureSeen ==
    \E t1, t2 \in Timers :
        /\ flush[t1].pc = "done" /\ flush[t1].article_url = "none"
        /\ flush[t2].pc = "done" /\ flush[t2].article_url = "raise"

\* C8: when post_article returns a URL, the finished run has stored one
\* Article, has set processed on every Message of its snapshot and has sent
\* the success notification.
PublishSuccessComplete ==
    \A t \in Timers :
        (flush[t].pc = "done" /\ flush[t].article_url = "url") =>
            /\ flush[t].article
            /\ Cardinality({a \in db_articles : a.flush = t}) = 1
            /\ \A i \in RowsOf(flush[t].messages) : db_messages[i].processed
            /\ \E i \in 1..Len(flush[t].notes) : flush[t].notes[i] = SUCCESS

\* C9: a Message row is processed only if a run whose snapshot held an item
\* with that row's message id got a URL from post_article.
ProcessedOnlyAfterPublish ==
    \A i \in 1..Len(db_messages) :
        db_messages[i].processed =>
            \E t \in Timers :
                /\ flush[t].article_url = "url"
                /\ db_messages[i].line_message_id \in Ids(flush[t].messages)

\* C9, the case: a row is processed while another row, of another message
\* id, is stored.
ProcessedSeen ==
    \E i, j \in 1..Len(db_messages) :
        /\ db_messages[i].processed
        /\ db_messages[j].line_message_id # db_messages[i].line_message_id

\* C10: when the synthesis yields no title or body, post_article is not
\* called for the snapshot, no Article is stored, no Message is marked
\* processed, and the user is sent the failure notification and nothing else.
SynthesisFailureAtomic ==
    \A t \in Timers :
        flush[t].title = "empty" =>
            /\ flush[t].posts = 0
            /\ flush[t].article_url = "unset"
            /\ NothingRecorded(t)
            /\ flush[t].notes = <<FAILURE>>

\* C10, the case: a run with a non-empty snapshot has finished after its
\* synthesis failed.
SynthesisFailureSeen ==
    \E t \in Timers :
        /\ flush[t].pc = "done"
        /\ flush[t].title = "empty"
        /\ flush[t].messages # <<>>

\* The message events whose request handler has returned, by timestamp.
Handled ==
    {s \in 1..Len(received) : \A h \in Handlers : message_data[h].timestamp # s}

\* Where the item of the event stamped s is in the arrivals of user u.
ArrivalsOf(u, s) ==
    {i \in 1..Len(arrivals[u]) : arrivals[u][i].timestamp = s}

\* C11: when the retrieval, the analysis or the upload failed for a handled
\* image or video event, its item has still been added to the user's batch,
\* with the sentinel text as content, and once the scheduler has settled the
\* item is in a snapshot whose run, when finished, has called post_article.
PartialEnrichmentIsolation ==
    \A s \in Handled :
        received[s].enrichment # {} =>
            LET u == received[s].user_id IN
            /\ ArrivalsOf(u, s) # {}
            /\ \A i \in ArrivalsOf(u, s) : arrivals[u][i].content \in Sentinels
            /\ Settled(u) =>
                   \E t \in Snapshots(u) :
                       /\ s \in Stamps(flush[t].messages)
                       /\ flush[t].pc = "done" => flush[t].posts = 1

\* C12: a request without a signature or with a wrong one, or with an empty
\* or unparsable body, is answered with a 4xx status, and a message event
\* that came with a wrong signature stores no Message, appends no item and
\* starts no timer.
ValidationRejects ==
    /\ \A h \in Handlers :
           (\/ response[h].signature \in {"missing", "invalid"}
            \/ response[h].body \in {"empty", "unparsable"})
               => response[h].status \in 400..499
    /\ \A s \in 1..Len(received) :
           received[s].signature # "valid" =>
               /\ \A i \in 1..Len(db_messages) : db_messages[i].timestamp # s
               /\ \A u \in Users : ArrivalsOf(u, s) = {}
               /\ \A h \in Handlers :
                      message_data[h].timestamp = s => new_timer[h] = NoTimer

\* C13: a message event of type text, image or video that came with a valid
\* signature never has more than one item in its user's batch, and has
\* exactly one once its request handler has returned.
ExactlyOneItemPerEvent ==
    \A s \in 1..Len(received) :
        (/\ received[s].signature = "valid"
         /\ received[s].message_type \in {"text", "image", "video"}) =>
            /\ Cardinality(ArrivalsOf(received[s].user_id, s)) <= 1
            /\ s \in Handled =>
                   Cardinality(ArrivalsOf(received[s].user_id, s)) = 1

\* A run of process_user_batch for user u is past line 318 with a snapshot
\* that holds the user's latest item, and neither another run of the user is
\* inside lines 313-318 nor a request handler of the user inside
\* add_message_to_batch: nothing was added since the snapshot.
FlushedAndQuiet(u) ==
    /\ arrivals[u] # <<>>
    /\ \E t \in Snapshots(u) :
           /\ flush[t].pc \in {"synth", "done"}
           /\ arrivals[u][Len(arrivals[u])].timestamp \in Stamps(flush[t].messages)
    /\ \A t \in Timers :
           timer[t].user = u => flush[t].pc \notin {"clear", "check_timer", "del"}
    /\ \A h \in Handlers :
           message_data[h].user_id = u =>
               hpc[h] \notin {"check_timer", "cancel", "start", "assign"}

\* C14: after a flush of a user has taken its snapshot and gone past line
\* 318, with nothing added since, the user is a key neither of
\* user_message_buffer nor of user_batch_timers.
WindowEntryRemoved ==
    \A u \in Users :
        FlushedAndQuiet(u) =>
            /\ u \notin buffer_keys
            /\ user_batch_timers[u] = NoTimer

\* The run of timer t has ended in a synthesis failure or a publish failure.
Failed(t) ==
    /\ flush[t].pc = "done"
    /\ flush[t].messages # <<>>
    /\ flush[t].title = "empty" \/ flush[t].article_url \in {"none", "raise"}

\* C15: no run calls post_article more than once, and once a run has ended
\* in a synthesis or publish failure the items of its snapshot are not in
\* the buffer again and no run takes a snapshot that holds one of them.
FailedBatchIsTerminal ==
    [][/\ \A t \in Timers : flush'[t].posts <= 1
       /\ \A t \in Timers :
              Failed(t) =>
                  /\ Stamps(flush[t].messages)
                         \cap Stamps(user_message_buffer'[timer[t].user]) = {}
                  /\ \A t2 \in Timers :
                         flush'[t2].messages # flush[t2].messages =>
                             Stamps(flush[t].messages)
                                 \cap Stamps(flush'[t2].messages) = {}]_vars

\* C15, the case: a run has ended in a failure and a run that took its
\* snapshot of later items has called post_article.
FailedThenFlushedAgain ==
    \E t, t2 \in Timers :
        /\ Failed(t)
        /\ flush[t2].pc = "done"
        /\ flush[t2].posts = 1
        /\ flush[t2].messages # <<>>
        /\ \A a \in Stamps(flush[t].messages), b \in Stamps(flush[t2].messages) : a < b

\* Where the line of the item stamped s is in a prompt, 0 if it has none.
PromptLine(prompt, s) ==
    LET hits == {i \in 1..Len(prompt) : prompt[i].timestamp = s}
    IN  IF hits = {} THEN 0 ELSE CHOOSE i \in hits : TRUE

\* C16: in the text given to the generation the items of the snapshot come
\* in the order they have in the snapshot, whatever their types.
PromptInArrivalOrder ==
    \A t \in Timers :
        \A i, j \in 1..Len(flush[t].messages) :
            LET a == PromptLine(Prompt(flush[t]), flush[t].messages[i].timestamp)
                b == PromptLine(Prompt(flush[t]), flush[t].messages[j].timestamp)
            IN  (i < j /\ a > 0 /\ b > 0) => a < b

\* The items of the list are in the order of their timestamps (line 134).
ByTimestamp(messages) ==
    \A i, j \in 1..Len(messages) :
        i < j => messages[i].timestamp < messages[j].timestamp

\* C17: in a user's buffer and in every snapshot the item with the earlier
\* arrival timestamp comes first, also when the request handlers of the
\* items ran concurrently.
BufferInArrivalOrder ==
    /\ \A u \in Users : ByTimestamp(user_message_buffer[u])
    /\ \A t \in Timers : ByTimestamp(flush[t].messages)

\* C18: in the body given to post_article every image tag comes after all
\* the generated text, and the tags are in the order their items arrived.
MediaAfterText ==
    \A t \in Timers :
        LET body == final_content(flush[t]) IN
        \A i, j \in 1..Len(body) :
            (i < j /\ body[i].kind = "img") =>
                (body[j].kind = "img" /\ body[i].of < body[j].of)

\* The item contents that hold a media reference: of the contents lines
\* 140, 177-185 and 249 produce, the one of a video, which is the path of
\* the stored file.
MediaReferences == {VIDEO_CONTENT}

\* C19: no line of the text given to the generation holds a media reference
\* (an uploaded URL, the path of a stored image or video, an image tag).
PromptFreeOfMedia ==
    \A t \in Timers :
        \A i \in 1..Len(Prompt(flush[t])) :
            Prompt(flush[t])[i].content \notin MediaReferences

\* C20: when the query extraction, the search judgement or the search fails
\* while the generation answers, the run still has a title and body, calls
\* post_article with a body that has no search section, and sends no
\* failure notification.
AugmentationNeverBlocks ==
    \A t \in Timers :
        (AugmentationFailed(flush[t].augment) /\ flush[t].basic_content = "text") =>
            /\ flush[t].title = "ok"
            /\ flush[t].posts = 1
            /\ final_content(flush[t]) # <<>>
            /\ \A i \in 1..Len(final_content(flush[t])) :
                   final_content(flush[t])[i].kind # "links"
            /\ \A i \in 1..Len(flush[t].notes) : flush[t].notes[i] # FAILURE

\* C20, the case: a run whose query extraction raised and a run whose search
\* judgement raised have both called post_article.
AugmentationFailureSeen ==
    \E t1, t2 \in Timers :
        /\ flush[t1].augment.extraction = "raise" /\ flush[t1].posts = 1
        /\ flush[t2].augment.judge = "raise" /\ flush[t2].posts = 1

\* Every run of process_user_batch for user u has ended or was never started,
\* and nothing is under way in the scheduler for u.
Finished(u) ==
    /\ Settled(u)
    /\ \A t \in Timers : timer[t].user = u => flush[t].pc \in {"none", "done"}
    /\ \A h \in Handlers : message_data[h].user_id # u

\* C21: an item added while a run of process_user_batch holds its snapshot
\* is appended at once and is not in that snapshot; once everything for the
\* user has finished, another run has taken it in a snapshot that shares no
\* item with the first and has stored an Article of its own.
RacingAddStartsNewBatch ==
    \A p \in raced :
        LET t == p[2]
            u == timer[t].user
        IN  /\ ArrivalsOf(u, p[1]) # {}
            /\ p[1] \notin Stamps(flush[t].messages)
            /\ Finished(u) =>
                   \E t2 \in Snapshots(u) :
                       /\ t2 # t
                       /\ p[1] \in Stamps(flush[t2].messages)
                       /\ Stamps(flush[t2].messages) \cap Stamps(flush[t].messages) = {}
                       /\ \E a \in db_articles : a.flush = t2

\* A request handler is inside add_message_to_batch for user u, past its
\* append.
Adding(u) ==
    \E h \in Handlers :
        /\ message_data[h].user_id = u
        /\ hpc[h] \in {"check_timer", "cancel", "start", "assign"}

\* The state of a key: FLUSHING from the snapshot of a run (line 313) to the
\* run's end, unless items wait in the buffer again after line 316; PENDING
\* while items wait in the buffer; ABSENT otherwise.
KeyState(u) ==
    IF \E t \in InFlight(u) : flush[t].pc = "clear" THEN "FLUSHING"
    ELSE IF user_message_buffer[u] # <<>> THEN "PENDING"
    ELSE IF InFlight(u) # {} THEN "FLUSHING"
    ELSE "ABSENT"

KeyTransitions ==
    {<<"ABSENT", "PENDING">>, <<"PENDING", "PENDING">>, <<"PENDING", "FLUSHING">>,
     <<"FLUSHING", "ABSENT">>, <<"FLUSHING", "PENDING">>,
     <<"ABSENT", "ABSENT">>, <<"FLUSHING", "FLUSHING">>}

\* A timer of user u is waiting, or has fired and its run has not yet taken
\* its snapshot.
Armed(u) ==
    \E t \in Timers :
        /\ timer[t].user = u
        /\ Live(t) \/ flush[t].pc \in {"check", "copy"}

\* C22: a key goes from ABSENT to PENDING, from PENDING to PENDING or
\* FLUSHING, and from FLUSHING to ABSENT or back to PENDING, and in no other
\* way: no snapshot is taken for a key that is ABSENT; and a key that is
\* PENDING, with no add_message_to_batch under way for it, has a timer armed.
KeyStateMachine ==
    [][\A u \in Users :
           /\ <<KeyState(u), KeyState(u)'>> \in KeyTransitions
           /\ (KeyState(u)' = "PENDING" /\ ~Adding(u)') => Armed(u)']_vars

\* The run of timer t is at line 309 and the buffer of its user is absent or
\* empty.
AtEmptyBuffer(t) ==
    /\ flush[t].pc = "check"
    /\ \/ timer[t].user \notin buffer_keys
       \/ user_message_buffer[timer[t].user] = <<>>

\* C23: a run of process_user_batch that finds its user's buffer absent or
\* empty at line 309 ends there: it has no snapshot, generates nothing, does
\* not call post_article, sends no notification, and leaves the Articles,
\* the Messages, user_message_buffer and user_batch_timers as they were; a
\* run that has ended does nothing more.
EmptyFlushIsNoOp ==
    [][\A t \in Timers :
           /\ (AtEmptyBuffer(t) /\ flush'[t] # flush[t]) =>
                  /\ flush'[t] = [NoFlush EXCEPT !.pc = "done"]
                  /\ UNCHANGED <<user_message_buffer, buffer_keys,
                                 user_batch_timers, db_messages, db_articles>>
           /\ flush[t].pc = "done" => flush'[t] = flush[t]]_vars

\* C23, the case: a timer has fired and its run has ended at line 311, after
\* an earlier run of the same user took the items the timer was started for.
EmptyFlushSeen ==
    \E t, t2 \in Timers :
        /\ timer[t].state = "fired"
        /\ flush[t] = [NoFlush EXCEPT !.pc = "done"]
        /\ t2 # t
        /\ timer[t2].user = timer[t].user
        /\ Len(flush[t2].messages) = 2

\* The run of timer t has gone through to line 381: it has published, told
\* the user, stored the Article and marked the Messages, and nothing raised.
Succeeded(t) ==
    /\ flush[t].pc = "done"
    /\ flush[t].article_url = "url"
    /\ flush[t].notes = <<SUCCESS>>

ArticlesOf(t) == {a \in db_articles : a.flush = t}

StepOf(k) ==
    \/ \E h \in Handlers :
           /\ message_data[h].user_id = k
           /\ hpc[h] \in {"append", "check_timer", "cancel", "start", "assign"}
           /\ hpc'[h] # hpc[h]
    \/ \E t \in Timers :
           /\ timer[t].user = k
           /\ flush[t].pc # "none"
           /\ flush'[t] # flush[t]

\* C25: a step of add_message_to_batch or of process_user_batch for one user
\* leaves the buffer, the timer entry and the timers of every other user as
\* they were.
KeyIndependence ==
    [][\A k, u \in Users :
           (k # u /\ StepOf(k)) =>
               /\ user_message_buffer'[u] = user_message_buffer[u]
               /\ (u \in buffer_keys') = (u \in buffer_keys)
               /\ user_batch_timers'[u] = user_batch_timers[u]
               /\ \A t \in Timers : timer[t].user = u => timer'[t] = timer[t]]_vars

\* C25, the case: a run of process_user_batch for one user is past line 318
\* while another user has an item buffered, a timer entry and that timer
\* waiting.
KeysInterleaved ==
    \E t, t2 \in Timers :
        /\ flush[t].pc \in {"synth", "done"}
        /\ flush[t].messages # <<>>
        /\ timer[t2].user # timer[t].user
        /\ Live(t2)
        /\ user_batch_timers[timer[t2].user] = t2
        /\ user_message_buffer[timer[t2].user] # <<>>

\* The notifications of the given kind that run t has sent.
NotesOf(t, kind) == {i \in 1..Len(flush[t].notes) : flush[t].notes[i] = kind}

\* C26: a run with a non-empty snapshot never sends its user both the
\* success notification and a failure notification, also when the commit of
\* the Article or of the processed marks raises after the success
\* notification.
NeverBothNotifications ==
    \A t \in Timers :
        flush[t].messages # <<>> =>
            ~(NotesOf(t, SUCCESS) # {} /\ NotesOf(t, FAILURE) # {})

\* A call of process_user_batch for user u is under way: its timer has fired
\* and the run has not ended.
Flushing(u) ==
    \E t \in Timers : timer[t].user = u /\ flush[t].pc \notin {"none", "done"}

\* C27: when items wait in a user's buffer and neither add_message_to_batch
\* nor process_user_batch is under way for the user, a timer of the user is
\* waiting, so that the items will be flushed.
NoStrandedItems ==
    \A u \in Users :
        (user_message_buffer[u] # <<>> /\ ~Adding(u) /\ ~Flushing(u)) =>
            LiveTimers(u) # {}

\* The run of timer t has ended, published with a URL or failed, and has
\* sent its user a notification.
Outcome(t) ==
    /\ flush[t].pc = "done"
    /\ flush[t].notes # <<>>
    /\ flush[t].article_url = "url" \/ NotesOf(t, FAILURE) # {}

\* C28: every run of process_user_batch that has taken a non-empty snapshot
\* ends, either published with a URL or failed, and has then sent its user
\* a notification, whichever of the generation, the insertion of the image
\* tags, post_article and the commit fails or raises: again and again all
\* the snapshots taken so far have reached their outcome.
SnapshotReachesOutcome ==
    []<>(\A t \in Timers : t \in Snapshots(timer[t].user) => Outcome(t))

\* C28, the case: a run has ended after post_article raised and another
\* after the insertion of the image tags raised.
StageFailuresSeen ==
    \E t1, t2 \in Timers :
        /\ flush[t1].pc = "done" /\ flush[t1].article_url = "raise"
        /\ flush[t1].messages # <<>>
        /\ flush[t2].pc = "done" /\ flush[t2].inserted = "raise"
        /\ flush[t2].messages # <<>>

\* Where the tag of the item is in a body.
TagPlaces(body, msg) == {j \in 1..Len(body) : body[j] = ImgTag(msg)}

\* C29: the body given to post_article holds the tag of every image of the
\* snapshot that has an Imgur URL exactly once.
ImageTagExactlyOnce ==
    \A t \in Timers :
        flush[t].posts = 1 =>
            \A i \in 1..Len(flush[t].messages) :
                LET msg == flush[t].messages[i] IN
                (msg.message_type = "image" /\ msg.imgur_url) =>
                    Cardinality(TagPlaces(final_content(flush[t]), msg)) = 1

\* C30: when the processing of a message event has ended in the except
\* clause of process_message_event_with_batch, the event has no item in any
\* user's buffer and its handler has started no timer; the events that follow
\* it in the same envelope and did not fail have their items, and the
\* request is answered 'OK'.
EventFailureContained ==
    \A s \in Handled :
        received[s].raised =>
            /\ \A u \in Users : s \notin Stamps(user_message_buffer[u])
            /\ \A t \in Timers : timer[t].by # s
            /\ \A s2 \in Handled :
                   (/\ s2 > s
                    /\ received[s2].envelope = received[s].envelope
                    /\ ~received[s2].raised) =>
                       ArrivalsOf(received[s2].user_id, s2) # {}
            /\ (LastEvent(received[s].thread) \in Handled
                    /\ response[received[s].thread].body = "message") =>
                   response[received[s].thread].status = 200

====
